---- MODULE Spec2Model ----
(***************************************************************************)
(* State-machine model of the videotube server (server.js, the MinIO       *)
(* variant in src/unnamed/part_000; the Cloudflare R2 variant in           *)
(* src/public/scripts/main.js has the same upload and view handlers).      *)
(*                                                                         *)
(*   Spec        the ingestion pipeline, POST /api/upload                  *)
(*   SpecView    GET /api/videos/:videoId over an ingested record          *)
(*   SpecStream  GET /api/stream/:videoId over an ingested object          *)
(*                                                                         *)
(* One action is one run of JavaScript between two awaits: Node runs a     *)
(* handler without interruption until it awaits, so the steps of two       *)
(* requests interleave only at the awaits.                                 *)
(***************************************************************************)
EXTENDS Integers, Sequences, FiniteSets, TLC

(***************************************************************************)
(* Bounds and input sets                                                   *)
(***************************************************************************)
\* Largest temp video file, in bytes.
MaxFileSize == 1
\* Concurrent GET /api/videos/:videoId requests.
NumViewers == 3
\* Largest stored video object served by the stream responder, in bytes.
MaxObjSize == 4
\* Largest chunk the upstream object stream emits in one 'data' event.
MaxChunk == 3

\* generateThumbnails(tempVideoPath, tempThumbnailDir, 10)
THUMB_COUNT == 10

Undefined == "undefined"
\* null, for a variable that holds a path or a name
Null == << >>
\* A JavaScript number: an integer or NaN.
Num(v) == [ nan |-> FALSE, v |-> v ]
NaN == [ nan |-> TRUE, v |-> 0 ]

\* The names multer generates for two uploads (random hex, no extension).
FileNames == { <<"a", "1">>, <<"b", "2">> }
Runs == FileNames
\* req.body.title: absent, empty, or a title (both uploads may send the same).
TitleInputs == { Undefined, "", "Demo" }
\* req.body.description
DescInputs == { Undefined }
\* metadata.format.duration as ffprobe reports it
Durations == { 30 }
\* How many frames ffmpeg leaves in the directory: none, some, or all of the
\* requested ones (a short video yields fewer; a failed run leaves a part).
FrameYields == { 0, 2, THUMB_COUNT }

(***************************************************************************)
(* Paths and object keys                                                   *)
(***************************************************************************)
\* PathParseName yielding one fixed name, whatever file name multer generated.
PathParseName_Fixed(name) == << "x" >>

\* path.parse(name).name: the name without its last extension.
PathParseName(name) ==
    LET dots == { i \in 2..Len(name) : name[i] = "." }
    IN  IF dots = {} THEN name
        ELSE SubSeq(name, 1, (CHOOSE i \in dots : \A j \in dots : j <= i) - 1)

\* multer's file.path: dest joined with the generated filename.
MulterPath(filename) == << "uploads/videos", filename >>

\* ThumbDirOf with one directory for every upload.
ThumbDirOf_Shared(videoId) == << "thumbnails", << >> >>

\* path.join('thumbnails', videoId)
ThumbDirOf(videoId) == << "thumbnails", videoId >>

\* `videos/${videoId}.mp4`
VideoKey(videoId) == << "videos", videoId >>

\* `thumbnails/${videoId}/${thumbFile}`, thumbFile being thumb_<i>.jpg
ThumbKey(videoId, i) == << "thumbnails", videoId, i >>

(***************************************************************************)
(* Array.prototype.sort() on the thumbnail file names: by UTF-16 code      *)
(* units of 'thumb_<i>.jpg', not by the number i.                          *)
(***************************************************************************)
RECURSIVE DecimalCodes(_)
DecimalCodes(n) ==
    IF n < 10 THEN << 48 + n >>
    ELSE Append(DecimalCodes(n \div 10), 48 + (n % 10))

\* The code units of the file name 'thumb_<i>.jpg'.
ThumbNameCodes(i) ==
    << 116, 104, 117, 109, 98, 95 >> \o DecimalCodes(i) \o << 46, 106, 112, 103 >>

RECURSIVE CodesLess(_, _)
CodesLess(a, b) ==
    IF b = << >> THEN FALSE
    ELSE IF a = << >> THEN TRUE
    ELSE IF Head(a) # Head(b) THEN Head(a) < Head(b)
    ELSE CodesLess(Tail(a), Tail(b))

RECURSIVE SortNames(_)
SortNames(S) ==
    IF S = {} THEN << >>
    ELSE LET m == CHOOSE x \in S :
                    \A y \in S \ {x} : CodesLess(ThumbNameCodes(x), ThumbNameCodes(y))
         IN  << m >> \o SortNames(S \ {m})

\* fs.readdirSync(dir).filter(f => f.endsWith('.jpg')).sort(); every file the
\* generator writes is a thumb_<i>.jpg.
ReadThumbnailFiles(entries) == SortNames(entries)

(***************************************************************************)
(* State                                                                   *)
(***************************************************************************)
VARIABLES
    files,      \* temp video files on disk: path -> size
    dirs,       \* temp thumbnail directories on disk: path -> set of thumb indices
    objects,    \* the bucket: key -> size
    records,    \* the videos collection: a set of documents
    clock,      \* Date.now at the record store, a logical clock
    runs,       \* per upload request: the handler's locals and position
    ghost,      \* per upload request: what has happened in the run (history)
    viewers,    \* per GET /api/videos/:videoId request
    stream,     \* the GET /api/stream/:videoId request
    r2put       \* one call of uploadToR2 (the R2 variant of the put)

vars == << files, dirs, objects, records, clock, runs, ghost, viewers, stream, r2put >>

uploadVars == << files, dirs, objects, records, clock, runs, ghost >>

Viewers == 1..NumViewers

IdleRun ==
    [ pc |-> "idle", hasFile |-> FALSE, title |-> Undefined,
      description |-> Undefined, size |-> 0,
      tempVideoPath |-> Null, tempThumbnailDir |-> Null,
      videoId |-> Null, duration |-> 0,
      thumbnailFiles |-> << >>, idx |-> 0, status |-> 0, responses |-> 0 ]

IdleGhost ==
    [ failed |-> "none", fsFault |-> FALSE, frames |-> {}, putLog |-> << >>,
      stored |-> {}, saved |-> FALSE ]

IdleViewer == [ pc |-> "idle", video |-> Undefined, status |-> 0 ]

IdleStream ==
    [ pc |-> "idle", mode |-> "none", videoId |-> Null, fault |-> "none",
      range |-> [ present |-> FALSE, text |-> << >> ],
      fileSize |-> 0, start |-> Num(0), end |-> Num(0), status |-> 0,
      headers |-> << >>,
      body |-> << >>, bytesRead |-> 0, upstreamPos |-> 0,
      destroyed |-> FALSE, ended |-> FALSE, upstreamError |-> FALSE,
      clientClosed |-> FALSE, unpiped |-> FALSE, readAfterClose |-> FALSE,
      crashed |-> FALSE ]

\* uploadToR2 not yet called: sent counts the PutObjectCommands sent, uploads
\* the multipart Uploads started, next is the number of the next part.
IdleR2 ==
    [ pc |-> "idle", fileSize |-> 0, sent |-> 0, uploads |-> 0,
      partSize |-> 0, queueSize |-> 0, next |-> 1,
      inFlight |-> {}, uploaded |-> {}, failed |-> FALSE ]

Init ==
    /\ files = << >>
    /\ dirs = << >>
    /\ objects = << >>
    /\ records = {}
    /\ clock = 0
    /\ runs = [ r \in Runs |-> IdleRun ]
    /\ ghost = [ r \in Runs |-> IdleGhost ]
    /\ viewers = [ h \in Viewers |-> IdleViewer ]
    /\ stream = IdleStream
    /\ r2put = IdleR2

(***************************************************************************)
(* File system and stores                                                  *)
(***************************************************************************)
\* f with key k removed
Without(f, k) == [ x \in (DOMAIN f) \ {k} |-> f[x] ]

\* f with key k set to v
With(f, k, v) == [ x \in (DOMAIN f) \cup {k} |-> IF x = k THEN v ELSE f[x] ]

\* fs.existsSync(p), p a path or null
Exists(f, p) == p # Null /\ p \in DOMAIN f

FsOps == { "unlink", "rm", "catchUnlink", "catchRm" }

\* The success path's cleanup, lines 208-209: unlinkSync(tempVideoPath), then
\* rmSync(tempThumbnailDir). faults names the calls that throw; a call that
\* throws leaves its target in place and skips the rest.
SuccessCleanup(fs, path, dir, faults) ==
    IF "unlink" \in faults
    THEN [ files |-> fs.files, dirs |-> fs.dirs, threw |-> TRUE ]
    ELSE IF "rm" \in faults
    THEN [ files |-> Without(fs.files, path), dirs |-> fs.dirs, threw |-> TRUE ]
    ELSE [ files |-> Without(fs.files, path), dirs |-> Without(fs.dirs, dir),
           threw |-> FALSE ]

\* CatchCleanup without its second half: the directory is never removed.
CatchCleanup_KeepDir(fs, path, dir, faults) ==
    LET unlinkRuns == Exists(fs.files, path)
        unlinkThrows == unlinkRuns /\ "catchUnlink" \in faults
    IN  [ files |-> IF unlinkRuns /\ ~unlinkThrows
                    THEN Without(fs.files, path) ELSE fs.files,
          dirs |-> fs.dirs,
          threw |-> unlinkThrows ]

\* The catch block's cleanup, lines 226-231: each target is removed if it is
\* set and exists. A call that throws leaves the catch block by exception.
CatchCleanup(fs, path, dir, faults) ==
    LET unlinkRuns == Exists(fs.files, path)
        unlinkThrows == unlinkRuns /\ "catchUnlink" \in faults
        files1 == IF unlinkRuns /\ ~unlinkThrows
                  THEN Without(fs.files, path) ELSE fs.files
        rmRuns == ~unlinkThrows /\ Exists(fs.dirs, dir)
        rmThrows == rmRuns /\ "catchRm" \in faults
        dirs1 == IF rmRuns /\ ~rmThrows THEN Without(fs.dirs, dir) ELSE fs.dirs
    IN  [ files |-> files1, dirs |-> dirs1, threw |-> unlinkThrows \/ rmThrows ]

(***************************************************************************)
(* POST /api/upload                                                        *)
(***************************************************************************)
FsState == [ files |-> files, dirs |-> dirs ]

\* The catch block, lines 222-234: cleanup, then the 500 response. When the
\* cleanup itself throws, the async handler rejects and no response is sent.
Caught(run, gh, fs, faults, step) ==
    LET c == CatchCleanup(fs, run.tempVideoPath, run.tempThumbnailDir, faults)
    IN  [ files |-> c.files,
          dirs |-> c.dirs,
          run |-> IF c.threw
                  THEN [ run EXCEPT !.pc = "hung" ]
                  ELSE [ run EXCEPT !.pc = "done", !.status = 500,
                                    !.responses = @ + 1 ],
          gh |-> [ gh EXCEPT !.failed = step, !.fsFault = @ \/ c.threw ] ]

\* uploadToMinio(filePath, objectName, contentType) up to its await: the put
\* of objectName is issued.
PutIssued(gh, key) == [ gh EXCEPT !.putLog = Append(@, key) ]

\* putObject resolved: the object is in the bucket with the file's size.
PutStored(gh, key) == [ gh EXCEPT !.stored = @ \cup {key} ]

\* Lines 154-170: multer has stored the file part (if any) under a generated
\* name; the handler validates and, if valid, starts probing.
Receive(r) ==
    /\ runs[r].pc = "idle"
    /\ \E hasFile \in BOOLEAN, title \in TitleInputs, description \in DescInputs,
          size \in 1..MaxFileSize :
         LET path == MulterPath(r)
             files1 == IF hasFile THEN With(files, path, size) ELSE files
             run1 == [ runs[r] EXCEPT !.hasFile = hasFile, !.title = title,
                                      !.description = description,
                                      !.size = IF hasFile THEN size ELSE 0 ]
         IN  /\ files' = files1
             /\ IF ~hasFile \/ title \in { Undefined, "" }
                THEN runs' = [ runs EXCEPT ![r] =
                                 [ run1 EXCEPT !.pc = "done", !.status = 400,
                                               !.responses = @ + 1 ] ]
                ELSE runs' = [ runs EXCEPT ![r] =
                                 [ run1 EXCEPT !.pc = "probe",
                                               !.tempVideoPath = path,
                                               !.videoId = PathParseName(r),
                                               !.tempThumbnailDir =
                                                   ThumbDirOf(PathParseName(r)) ] ]
    /\ UNCHANGED << dirs, objects, records, clock, ghost, viewers, stream, r2put >>

\* ProbeDone with a rejected probe not thrown: the pipeline goes on to
\* generate thumbnails.
ProbeDone_IgnoreProbeError(r) ==
    /\ runs[r].pc = "probe"
    /\ \E ok \in BOOLEAN, d \in Durations :
         /\ runs' = [ runs EXCEPT ![r] =
                        [ @ EXCEPT !.pc = "gen", !.duration = IF ok THEN d ELSE 0 ] ]
         /\ dirs' = IF Exists(dirs, runs[r].tempThumbnailDir) THEN dirs
                    ELSE With(dirs, runs[r].tempThumbnailDir, {})
         /\ ghost' = [ ghost EXCEPT ![r] =
                         IF ok THEN @ ELSE [ @ EXCEPT !.failed = "probe" ] ]
         /\ UNCHANGED files
    /\ UNCHANGED << objects, records, clock, viewers, stream, r2put >>

\* Lines 173-177 with 100-107 and 110-114: ffprobe has answered; on success
\* generateThumbnails creates the output directory and starts ffmpeg.
ProbeDone(r) ==
    /\ runs[r].pc = "probe"
    /\ \E ok \in BOOLEAN, d \in Durations, faults \in SUBSET { "catchUnlink", "catchRm" } :
         IF ok
         THEN /\ runs' = [ runs EXCEPT ![r] = [ @ EXCEPT !.pc = "gen", !.duration = d ] ]
              /\ dirs' = IF Exists(dirs, runs[r].tempThumbnailDir) THEN dirs
                         ELSE With(dirs, runs[r].tempThumbnailDir, {})
              /\ UNCHANGED << files, ghost >>
         ELSE LET c == Caught(runs[r], ghost[r], FsState, faults, "probe")
              IN  /\ files' = c.files
                  /\ dirs' = c.dirs
                  /\ runs' = [ runs EXCEPT ![r] = c.run ]
                  /\ ghost' = [ ghost EXCEPT ![r] = c.gh ]
    /\ UNCHANGED << objects, records, clock, viewers, stream, r2put >>

\* GenDone with a failed generation tried again instead of thrown.
GenDone_RetryOnFailure(r) ==
    /\ runs[r].pc = "gen"
    /\ \E ok \in BOOLEAN, n \in FrameYields :
         LET dir == runs[r].tempThumbnailDir
         IN  /\ dirs' = With(dirs, dir, dirs[dir] \cup (1..n))
             /\ IF ok
                THEN /\ runs' = [ runs EXCEPT ![r] = [ @ EXCEPT !.pc = "upvideo" ] ]
                     /\ ghost' = [ ghost EXCEPT ![r] =
                                     PutIssued([ @ EXCEPT !.frames = 1..n,
                                                          !.failed = "none" ],
                                               VideoKey(runs[r].videoId)) ]
                ELSE /\ runs' = runs
                     /\ ghost' = [ ghost EXCEPT ![r] =
                                     [ @ EXCEPT !.frames = 1..n, !.failed = "gen" ] ]
             /\ UNCHANGED files
    /\ UNCHANGED << objects, records, clock, viewers, stream, r2put >>

\* Lines 116-124 and 177-181: ffmpeg has ended or failed, leaving n frames
\* thumb_1.jpg .. thumb_n.jpg; on success the video upload is issued.
GenDone(r) ==
    /\ runs[r].pc = "gen"
    /\ \E ok \in BOOLEAN, n \in FrameYields, faults \in SUBSET { "catchUnlink", "catchRm" } :
         LET dir == runs[r].tempThumbnailDir
             fs1 == [ files |-> files, dirs |-> With(dirs, dir, dirs[dir] \cup (1..n)) ]
         IN  IF ok
             THEN /\ runs' = [ runs EXCEPT ![r] = [ @ EXCEPT !.pc = "upvideo" ] ]
                  /\ ghost' = [ ghost EXCEPT ![r] =
                                  PutIssued([ @ EXCEPT !.frames = 1..n ],
                                            VideoKey(runs[r].videoId)) ]
                  /\ dirs' = fs1.dirs
                  /\ UNCHANGED files
             ELSE LET c == Caught(runs[r], [ ghost[r] EXCEPT !.frames = 1..n ],
                                  fs1, faults, "gen")
                  IN  /\ files' = c.files
                      /\ dirs' = c.dirs
                      /\ runs' = [ runs EXCEPT ![r] = c.run ]
                      /\ ghost' = [ ghost EXCEPT ![r] = c.gh ]
    /\ UNCHANGED << objects, records, clock, viewers, stream, r2put >>

\* NewVideo recording the requested count instead of the listed files.
NewVideo_RequestedCount(run, id, now) ==
    [ id |-> id,
      videoId |-> run.videoId,
      title |-> run.title,
      description |-> IF run.description = Undefined THEN "" ELSE run.description,
      filename |-> << run.videoId, ".mp4" >>,
      duration |-> run.duration,
      thumbnailCount |-> THUMB_COUNT,
      views |-> 0,
      createdAt |-> now ]

\* The record the handler builds, lines 196-203.
NewVideo(run, id, now) ==
    [ id |-> id,
      videoId |-> run.videoId,
      title |-> run.title,
      description |-> IF run.description = Undefined THEN "" ELSE run.description,
      filename |-> << run.videoId, ".mp4" >>,
      duration |-> run.duration,
      thumbnailCount |-> Len(run.thumbnailFiles),
      views |-> 0,
      createdAt |-> now ]

\* VideoUploadDone with the thumbnail loop left out: the directory is listed
\* and the record save is issued at once.
VideoUploadDone_SkipThumbnails(r) ==
    /\ runs[r].pc = "upvideo"
    /\ LET run == runs[r]
           key == VideoKey(run.videoId)
       IN  /\ objects' = With(objects, key, files[run.tempVideoPath])
           /\ runs' = [ runs EXCEPT ![r] =
                          [ @ EXCEPT !.thumbnailFiles =
                                         ReadThumbnailFiles(dirs[run.tempThumbnailDir]),
                                     !.pc = "save" ] ]
           /\ ghost' = [ ghost EXCEPT ![r] = PutStored(@, key) ]
    /\ UNCHANGED << files, dirs, records, clock, viewers, stream, r2put >>

\* Lines 181-193: the video put has resolved or rejected; on success the
\* directory is listed and the first thumbnail put is issued (or, with no
\* thumbnail, the record save).
VideoUploadDone(r) ==
    /\ runs[r].pc = "upvideo"
    /\ \E ok \in BOOLEAN, faults \in SUBSET { "catchUnlink", "catchRm" } :
         LET run == runs[r]
             key == VideoKey(run.videoId)
             thumbnailFiles == ReadThumbnailFiles(dirs[run.tempThumbnailDir])
         IN  IF ok
             THEN /\ objects' = With(objects, key, files[run.tempVideoPath])
                  /\ runs' = [ runs EXCEPT ![r] =
                                 [ @ EXCEPT !.thumbnailFiles = thumbnailFiles,
                                            !.idx = IF thumbnailFiles = << >> THEN 0 ELSE 1,
                                            !.pc = IF thumbnailFiles = << >>
                                                   THEN "save" ELSE "upthumb" ] ]
                  /\ ghost' = [ ghost EXCEPT ![r] =
                                  IF thumbnailFiles = << >>
                                  THEN PutStored(@, key)
                                  ELSE PutIssued(PutStored(@, key),
                                                 ThumbKey(run.videoId, thumbnailFiles[1])) ]
                  /\ UNCHANGED << files, dirs >>
             ELSE LET c == Caught(run, ghost[r], FsState, faults, "upvideo")
                  IN  /\ files' = c.files
                      /\ dirs' = c.dirs
                      /\ runs' = [ runs EXCEPT ![r] = c.run ]
                      /\ ghost' = [ ghost EXCEPT ![r] = c.gh ]
                      /\ UNCHANGED objects
    /\ UNCHANGED << records, clock, viewers, stream, r2put >>

\* The size of a generated frame; nothing in the handler reads it.
ThumbBytes == 1

\* ThumbUploadDone with a rejected put swallowed: the loop goes on.
ThumbUploadDone_SwallowError(r) ==
    /\ runs[r].pc = "upthumb"
    /\ \E ok \in BOOLEAN :
         LET run == runs[r]
             key == ThumbKey(run.videoId, run.thumbnailFiles[run.idx])
             last == run.idx = Len(run.thumbnailFiles)
         IN  /\ objects' = IF ok THEN With(objects, key, ThumbBytes) ELSE objects
             /\ runs' = [ runs EXCEPT ![r] =
                            IF last THEN [ @ EXCEPT !.pc = "save" ]
                            ELSE [ @ EXCEPT !.idx = @ + 1 ] ]
             /\ ghost' = [ ghost EXCEPT ![r] =
                             LET g == IF ok THEN PutStored(@, key)
                                      ELSE [ @ EXCEPT !.failed = "upthumb" ]
                             IN  IF last THEN g
                                 ELSE PutIssued(g, ThumbKey(run.videoId,
                                                   run.thumbnailFiles[run.idx + 1])) ]
    /\ UNCHANGED << files, dirs, records, clock, viewers, stream, r2put >>

\* ThumbUploadDone with a compensating delete: a rejected put removes the
\* objects the run has stored so far.
ThumbUploadDone_Rollback(r) ==
    /\ runs[r].pc = "upthumb"
    /\ \E ok \in BOOLEAN, faults \in SUBSET { "catchUnlink", "catchRm" } :
         LET run == runs[r]
             key == ThumbKey(run.videoId, run.thumbnailFiles[run.idx])
             last == run.idx = Len(run.thumbnailFiles)
         IN  IF ok
             THEN /\ objects' = With(objects, key, ThumbBytes)
                  /\ runs' = [ runs EXCEPT ![r] =
                                 IF last THEN [ @ EXCEPT !.pc = "save" ]
                                 ELSE [ @ EXCEPT !.idx = @ + 1 ] ]
                  /\ ghost' = [ ghost EXCEPT ![r] =
                                  IF last THEN PutStored(@, key)
                                  ELSE PutIssued(PutStored(@, key),
                                          ThumbKey(run.videoId,
                                                   run.thumbnailFiles[run.idx + 1])) ]
                  /\ UNCHANGED << files, dirs >>
             ELSE LET c == Caught(run, ghost[r], FsState, faults, "upthumb")
                  IN  /\ files' = c.files
                      /\ dirs' = c.dirs
                      /\ runs' = [ runs EXCEPT ![r] = c.run ]
                      /\ ghost' = [ ghost EXCEPT ![r] = c.gh ]
                      /\ objects' = [ k \in DOMAIN objects \ ghost[r].stored |->
                                        objects[k] ]
    /\ UNCHANGED << records, clock, viewers, stream, r2put >>

\* Lines 190-196: one thumbnail put has resolved or rejected; on success the
\* loop issues the next one, or after the last one the record save.
ThumbUploadDone(r) ==
    /\ runs[r].pc = "upthumb"
    /\ \E ok \in BOOLEAN, faults \in SUBSET { "catchUnlink", "catchRm" } :
         LET run == runs[r]
             key == ThumbKey(run.videoId, run.thumbnailFiles[run.idx])
             last == run.idx = Len(run.thumbnailFiles)
         IN  IF ok
             THEN /\ objects' = With(objects, key, ThumbBytes)
                  /\ runs' = [ runs EXCEPT ![r] =
                                 IF last THEN [ @ EXCEPT !.pc = "save" ]
                                 ELSE [ @ EXCEPT !.idx = @ + 1 ] ]
                  /\ ghost' = [ ghost EXCEPT ![r] =
                                  IF last THEN PutStored(@, key)
                                  ELSE PutIssued(PutStored(@, key),
                                          ThumbKey(run.videoId,
                                                   run.thumbnailFiles[run.idx + 1])) ]
                  /\ UNCHANGED << files, dirs >>
             ELSE LET c == Caught(run, ghost[r], FsState, faults, "upthumb")
                  IN  /\ files' = c.files
                      /\ dirs' = c.dirs
                      /\ runs' = [ runs EXCEPT ![r] = c.run ]
                      /\ ghost' = [ ghost EXCEPT ![r] = c.gh ]
                      /\ UNCHANGED objects
    /\ UNCHANGED << records, clock, viewers, stream, r2put >>

\* The unique index missing: no insert is rejected for its videoId.
UniqueViolation_NoIndex(recs, doc) == FALSE

\* The unique index on videoId, line 41: an insert of a second document with
\* the same videoId is rejected.
UniqueViolation(recs, doc) == \E d \in recs : d.videoId = doc.videoId

\* Lines 205-221: the save has resolved or rejected; on success the temp file
\* and directory are removed and the 200 response is sent. An exception of
\* the cleanup lands in the same catch block as every other failure.
SaveDone(r) ==
    /\ runs[r].pc = "save"
    /\ \E ok \in BOOLEAN, faults \in SUBSET FsOps :
         LET run == runs[r]
             video == NewVideo(run, r, clock + 1)
         IN  IF ok /\ ~UniqueViolation(records, video)
             THEN LET s == SuccessCleanup(FsState, run.tempVideoPath,
                                          run.tempThumbnailDir, faults)
                      gh1 == [ ghost[r] EXCEPT !.saved = TRUE ]
                      c == Caught(run, gh1, [ files |-> s.files, dirs |-> s.dirs ],
                                  faults, "cleanup")
                  IN  /\ records' = records \cup { video }
                      /\ clock' = clock + 1
                      /\ IF s.threw
                         THEN /\ files' = c.files
                              /\ dirs' = c.dirs
                              /\ runs' = [ runs EXCEPT ![r] = c.run ]
                              /\ ghost' = [ ghost EXCEPT ![r] =
                                              [ c.gh EXCEPT !.fsFault = TRUE ] ]
                         ELSE /\ files' = s.files
                              /\ dirs' = s.dirs
                              /\ runs' = [ runs EXCEPT ![r] =
                                             [ @ EXCEPT !.pc = "done", !.status = 200,
                                                        !.responses = @ + 1 ] ]
                              /\ ghost' = [ ghost EXCEPT ![r] = gh1 ]
             ELSE LET c == Caught(run, ghost[r], FsState, faults, "save")
                  IN  /\ files' = c.files
                      /\ dirs' = c.dirs
                      /\ runs' = [ runs EXCEPT ![r] = c.run ]
                      /\ ghost' = [ ghost EXCEPT ![r] = c.gh ]
                      /\ UNCHANGED << records, clock >>
    /\ UNCHANGED << objects, viewers, stream, r2put >>

Next ==
    \E r \in Runs :
        \/ Receive(r)
        \/ ProbeDone(r)
        \/ GenDone(r)
        \/ VideoUploadDone(r)
        \/ ThumbUploadDone(r)
        \/ SaveDone(r)

Spec == Init /\ [][Next]_vars

(***************************************************************************)
(* An upload whose generated name equals that of an earlier ingestion: the *)
(* stores hold the earlier record and objects when the server starts.      *)
(***************************************************************************)
\* The name multer generates a second time.
RepeatedName == CHOOSE n \in FileNames : n[1] = "a"

\* The record of the earlier ingestion under that name.
EarlierRecords ==
    { [ id |-> << "e", "0" >>, videoId |-> PathParseName(RepeatedName),
        title |-> "Demo", description |-> "",
        filename |-> << PathParseName(RepeatedName), ".mp4" >>, duration |-> 30,
        thumbnailCount |-> 2, views |-> 0, createdAt |-> 0 ] }

\* The objects of the earlier ingestion.
EarlierObjects ==
    LET id == PathParseName(RepeatedName)
        keys == { VideoKey(id), ThumbKey(id, 1), ThumbKey(id, 2) }
    IN  [ k \in keys |-> IF k = VideoKey(id) THEN 1 ELSE ThumbBytes ]

InitRepeat ==
    /\ files = << >>
    /\ dirs = << >>
    /\ objects = EarlierObjects
    /\ records = EarlierRecords
    /\ clock = 0
    /\ runs = [ r \in Runs |-> IdleRun ]
    /\ ghost = [ r \in Runs |-> IdleGhost ]
    /\ viewers = [ h \in Viewers |-> IdleViewer ]
    /\ stream = IdleStream
    /\ r2put = IdleR2

SpecRepeat == InitRepeat /\ [][Next]_vars

(***************************************************************************)
(* What an earlier, successful ingestion has left in the two stores: the   *)
(* record store and the bucket outlive the server process.                 *)
(***************************************************************************)
\* The name multer gave that earlier upload.
OldName == << "c", "0" >>

OldVideoId == PathParseName(OldName)

\* The videoIds a GET request may name: the ingested one and an unknown one.
RequestedIds == { OldVideoId, << "n", "o" >> }

IngestedRecords ==
    { [ id |-> OldName, videoId |-> OldVideoId, title |-> "Demo", description |-> "",
        filename |-> << OldVideoId, ".mp4" >>, duration |-> 30,
        thumbnailCount |-> 2, views |-> 0, createdAt |-> 1 ] }

IngestedObjects(size) ==
    LET keys == { VideoKey(OldVideoId), ThumbKey(OldVideoId, 1), ThumbKey(OldVideoId, 2) }
    IN  [ k \in keys |-> IF k = VideoKey(OldVideoId) THEN size ELSE ThumbBytes ]

(***************************************************************************)
(* GET /api/videos/:videoId                                                *)
(***************************************************************************)
\* Video.findOne({ videoId }): the matching documents, none (null) or the
\* first one.
FindOne(recs, videoId) ==
    LET found == { d \in recs : d.videoId = videoId }
    IN  IF found = {} THEN {} ELSE { CHOOSE d \in found : TRUE }

\* SaveViews writing the creation time anew along with the views.
SaveViews_RewritesCreatedAt(recs, video) ==
    { IF d.id = video.id THEN [ d EXCEPT !.views = video.views, !.createdAt = 0 ]
      ELSE d : d \in recs }

\* video.save() of a loaded document whose views path is modified: the store
\* sets views of the document with that _id to the value the handler holds.
SaveViews(recs, video) ==
    { IF d.id = video.id THEN [ d EXCEPT !.views = video.views ] ELSE d : d \in recs }

\* Lines 259-267: findOne has answered; a missing record is a 404, otherwise
\* the handler increments its copy and issues the save.
ViewFind(h) ==
    /\ viewers[h].pc = "idle"
    /\ \E videoId \in RequestedIds, ok \in BOOLEAN :
         LET found == FindOne(records, videoId)
         IN  viewers' = [ viewers EXCEPT ![h] =
                 IF ~ok THEN [ @ EXCEPT !.pc = "done", !.status = 500 ]
                 ELSE IF found = {} THEN [ @ EXCEPT !.pc = "done", !.status = 404 ]
                 ELSE LET video == CHOOSE d \in found : TRUE
                      IN  [ @ EXCEPT !.pc = "saving",
                                     !.video = [ video EXCEPT !.views = @ + 1 ] ] ]
    /\ UNCHANGED << uploadVars, stream, r2put >>

\* Lines 267-282: the save has resolved (the record is written, 200) or
\* rejected (500 'Database error').
ViewSave(h) ==
    /\ viewers[h].pc = "saving"
    /\ \E ok \in BOOLEAN :
         IF ok
         THEN /\ records' = SaveViews(records, viewers[h].video)
              /\ viewers' = [ viewers EXCEPT ![h] = [ @ EXCEPT !.pc = "done", !.status = 200 ] ]
         ELSE /\ viewers' = [ viewers EXCEPT ![h] = [ @ EXCEPT !.pc = "done", !.status = 500 ] ]
              /\ UNCHANGED records
    /\ UNCHANGED << files, dirs, objects, clock, runs, ghost, stream, r2put >>

InitView ==
    /\ files = << >>
    /\ dirs = << >>
    /\ objects = IngestedObjects(1)
    /\ records = IngestedRecords
    /\ clock = 1
    /\ runs = [ r \in Runs |-> IdleRun ]
    /\ ghost = [ r \in Runs |-> IdleGhost ]
    /\ viewers = [ h \in Viewers |-> IdleViewer ]
    /\ stream = IdleStream
    /\ r2put = IdleR2

NextView == \E h \in Viewers : ViewFind(h) \/ ViewSave(h)

SpecView == InitView /\ [][NextView]_vars

(***************************************************************************)
(* GET /api/stream/:videoId: the Range header                              *)
(***************************************************************************)
DigitChars == << "0", "1", "2", "3", "4", "5", "6", "7", "8", "9" >>

IsDigit(c) == \E d \in 1..10 : DigitChars[d] = c

DigitValue(c) == (CHOOSE d \in 1..10 : DigitChars[d] = c) - 1

BytesEq == << "b", "y", "t", "e", "s", "=" >>

\* The start and end texts a client may send: nothing, a decimal number up
\* to the largest object size, a number past every object, a number with
\* trailing garbage, garbage.
RangeTokens ==
    { << >>, << "x" >>, << "1", "x" >>, << "1", "0" >> }
        \cup { << DigitChars[d + 1] >> : d \in 0..MaxObjSize }

\* The text of a Range header: empty, 'bytes=<start>-<end>' or 'bytes=<start>'.
RangeTexts ==
    { << >> }
        \cup { BytesEq \o s \o << "-" >> \o e : s \in RangeTokens, e \in RangeTokens }
        \cup { BytesEq \o s : s \in RangeTokens \ { << >> } }

\* req.headers.range: undefined when the request has no Range header.
NoRange == [ present |-> FALSE, text |-> << >> ]

RangeHeaders == { NoRange } \cup { [ present |-> TRUE, text |-> t ] : t \in RangeTexts }

\* if (range): undefined and the empty string are falsy.
Truthy(range) == range.present /\ range.text # << >>

\* String.prototype.replace(/bytes=/, ''): the first match is removed.
RemoveBytesEq(str) ==
    LET at == { i \in 1..Len(str) : i + 5 <= Len(str) /\ SubSeq(str, i, i + 5) = BytesEq }
    IN  IF at = {} THEN str
        ELSE LET i == CHOOSE x \in at : \A y \in at : x <= y
             IN  SubSeq(str, 1, i - 1) \o SubSeq(str, i + 6, Len(str))

\* String.prototype.split('-')
RECURSIVE SplitDash(_)
SplitDash(str) ==
    LET at == { i \in 1..Len(str) : str[i] = "-" }
    IN  IF at = {} THEN << str >>
        ELSE LET i == CHOOSE x \in at : \A y \in at : x <= y
             IN  << SubSeq(str, 1, i - 1) >> \o SplitDash(SubSeq(str, i + 1, Len(str)))

\* parseInt(str, 10): the value of the leading decimal digits, NaN without any.
RECURSIVE DigitsValue(_, _)
DigitsValue(str, acc) ==
    IF str = << >> \/ ~IsDigit(Head(str)) THEN acc
    ELSE DigitsValue(Tail(str), 10 * acc + DigitValue(Head(str)))

ParseInt(str) ==
    IF str = << >> \/ ~IsDigit(Head(str)) THEN NaN ELSE Num(DigitsValue(str, 0))

\* JavaScript arithmetic and comparison on numbers that may be NaN.
NumGe(a, b) == ~a.nan /\ ~b.nan /\ a.v >= b.v

NumLt(a, b) == ~a.nan /\ ~b.nan /\ a.v < b.v

NumSub(a, b) == IF a.nan \/ b.nan THEN NaN ELSE Num(a.v - b.v)

NumAdd(a, b) == IF a.nan \/ b.nan THEN NaN ELSE Num(a.v + b.v)

\* ParseRange with the length taken as end - start.
ParseRange_LengthOffByOne(range, fileSize) ==
    LET parts == SplitDash(RemoveBytesEq(range))
        start == ParseInt(parts[1])
        end == IF Len(parts) >= 2 /\ parts[2] # << >>
               THEN ParseInt(parts[2]) ELSE Num(fileSize - 1)
    IN  [ start |-> start, end |-> end, chunksize |-> NumSub(end, start) ]

\* Lines 303-306: start, end and chunksize from the header and the object size.
ParseRange(range, fileSize) ==
    LET parts == SplitDash(RemoveBytesEq(range))
        start == ParseInt(parts[1])
        end == IF Len(parts) >= 2 /\ parts[2] # << >>
               THEN ParseInt(parts[2]) ELSE Num(fileSize - 1)
    IN  [ start |-> start, end |-> end, chunksize |-> NumAdd(NumSub(end, start), Num(1)) ]

(***************************************************************************)
(* GET /api/stream/:videoId: the responder                                 *)
(***************************************************************************)
\* The object's bytes: byte i of every object is written as its offset i, so
\* a body is the right slice only if every byte sits at its place.
Chunk(pos, len) == [ j \in 1..len |-> pos + j - 1 ]

\* Line 321: whether the 'data' handler writes the chunk it was given.
RangeWrites(bytesRead, start, end) ==
    NumGe(Num(bytesRead), start) /\ NumLt(Num(bytesRead), end)

\* Line 325: whether the 'data' handler destroys the stream and ends the response.
RangeStops(bytesRead, end) == NumGe(Num(bytesRead), end)

\* Lines 288-316 and 338-343: the record lookup, the stat, the header parse,
\* the getObject and the response head. Each of the three awaited calls may
\* reject, which the catch block answers with 500 'Stream failed'.
StreamRequest ==
    /\ stream.pc = "idle"
    /\ \E videoId \in RequestedIds, range \in RangeHeaders,
          fault \in { "none", "find", "stat", "get" } :
         LET found == FindOne(records, videoId)
             fileSize == objects[VideoKey(videoId)]
             p == ParseRange(range.text, fileSize)
             req == [ stream EXCEPT !.videoId = videoId, !.range = range,
                                    !.fault = fault ]
         IN  stream' =
               IF fault = "find"
               THEN [ req EXCEPT !.pc = "done", !.status = 500, !.ended = TRUE ]
               ELSE IF found = {}
               THEN [ req EXCEPT !.pc = "done", !.status = 404, !.ended = TRUE,
                                 !.fault = "none" ]
               ELSE IF fault \in { "stat", "get" }
               THEN [ req EXCEPT !.pc = "done", !.status = 500, !.ended = TRUE ]
               ELSE IF Truthy(range)
               THEN [ req EXCEPT !.pc = "streaming", !.mode = "range",
                                    !.fileSize = fileSize,
                                    !.start = p.start, !.end = p.end,
                                    !.status = 206,
                                    !.headers =
                                        [ ContentRange |-> << p.start, p.end, fileSize >>,
                                          AcceptRanges |-> "bytes",
                                          ContentLength |-> p.chunksize,
                                          ContentType |-> "video/mp4" ] ]
               ELSE [ req EXCEPT !.pc = "streaming", !.mode = "full",
                                 !.fileSize = fileSize, !.status = 200,
                                 !.headers =
                                     [ ContentLength |-> Num(fileSize),
                                       ContentType |-> "video/mp4" ] ]
    /\ UNCHANGED << uploadVars, viewers, r2put >>

\* The upstream stream has more to give and nobody has stopped it.
UpstreamFlowing ==
    /\ stream.pc = "streaming"
    /\ ~stream.destroyed
    /\ ~stream.upstreamError

\* Lines 320-329: one 'data' event of the range path, for a chunk of len bytes.
RangeData(len) ==
    /\ UpstreamFlowing
    /\ stream.mode = "range"
    /\ len <= stream.fileSize - stream.upstreamPos
    /\ LET chunk == Chunk(stream.upstreamPos, len)
           bytesRead == stream.bytesRead + len
           stops == RangeStops(bytesRead, stream.end)
       IN  stream' =
             [ stream EXCEPT
                 !.body = IF RangeWrites(stream.bytesRead, stream.start, stream.end)
                             /\ ~stream.clientClosed
                          THEN @ \o chunk ELSE @,
                 !.readAfterClose = stream.clientClosed,
                 !.bytesRead = bytesRead,
                 !.upstreamPos = @ + len,
                 !.destroyed = stops,
                 !.ended = stops,
                 !.pc = IF stops THEN "done" ELSE @ ]
    /\ UNCHANGED << uploadVars, viewers, r2put >>

\* pipe writing each chunk ahead of what it has written.
PipeWrite_Prepend(body, chunk) == chunk \o body

\* Line 345, dataStream.pipe(res): the response body after one more chunk.
PipeWrite(body, chunk) == body \o chunk

\* Line 345, dataStream.pipe(res): one chunk is written to the response.
PipeData(len) ==
    /\ UpstreamFlowing
    /\ stream.mode = "full"
    /\ ~stream.unpiped
    /\ len <= stream.fileSize - stream.upstreamPos
    /\ stream' = [ stream EXCEPT !.body = PipeWrite(@, Chunk(stream.upstreamPos, len)),
                                 !.upstreamPos = @ + len ]
    /\ UNCHANGED << uploadVars, viewers, r2put >>

\* Line 331 (and pipe's own end handling): the upstream 'end' event ends the
\* response. An unpiped upstream is paused and emits no 'end'.
StreamEnd ==
    /\ UpstreamFlowing
    /\ ~stream.unpiped
    /\ stream.upstreamPos = stream.fileSize
    /\ stream' = [ stream EXCEPT !.ended = TRUE, !.pc = "done" ]
    /\ UNCHANGED << uploadVars, viewers, r2put >>

\* Lines 332-335 and 345: the upstream emits 'error' before its end. The range
\* path ends the response (the head has gone out, the status stays); the
\* pipe path has no 'error' listener, so the event is thrown and ends the
\* process.
StreamError ==
    /\ UpstreamFlowing
    /\ stream.upstreamPos < stream.fileSize
    /\ stream' = IF stream.mode = "range"
                 THEN [ stream EXCEPT !.upstreamError = TRUE, !.ended = TRUE,
                                      !.pc = "done" ]
                 ELSE [ stream EXCEPT !.upstreamError = TRUE, !.crashed = TRUE,
                                      !.pc = "done" ]
    /\ UNCHANGED << uploadVars, viewers, r2put >>

\* The client closes the connection while the body is being sent. The handler
\* registers no 'close' or 'aborted' listener (lines 318-335), so on the range
\* path the 'data' listener stays attached and the upstream keeps flowing,
\* its chunks written to a response that delivers nothing any more. On the
\* full path pipe (line 345) reacts to the response's 'close' by unpiping:
\* the upstream is paused, not destroyed.
ClientDisconnect ==
    /\ stream.pc = "streaming"
    /\ ~stream.clientClosed
    /\ stream' = [ stream EXCEPT !.clientClosed = TRUE,
                                 !.unpiped = (stream.mode = "full") ]
    /\ UNCHANGED << uploadVars, viewers, r2put >>

InitStream ==
    /\ files = << >>
    /\ dirs = << >>
    /\ \E size \in 1..MaxObjSize : objects = IngestedObjects(size)
    /\ records = IngestedRecords
    /\ clock = 1
    /\ runs = [ r \in Runs |-> IdleRun ]
    /\ ghost = [ r \in Runs |-> IdleGhost ]
    /\ viewers = [ h \in Viewers |-> IdleViewer ]
    /\ stream = IdleStream
    /\ r2put = IdleR2

NextStream ==
    \/ StreamRequest
    \/ \E len \in 1..MaxChunk : RangeData(len)
    \/ \E len \in 1..MaxChunk : PipeData(len)
    \/ StreamEnd
    \/ StreamError
    \/ ClientDisconnect

SpecStream == InitStream /\ [][NextStream]_vars

(***************************************************************************)
(* uploadToR2(filePath, key, contentType), the put of the R2 variant of    *)
(* the server. The Upload of @aws-sdk/lib-storage is taken by its options: *)
(* parts of partSize bytes (the last one the rest), numbered from 1 and    *)
(* started in order, at most queueSize of them in flight.                  *)
(***************************************************************************)
\* The limit of the simple upload, line 277.
SIMPLE_UPLOAD_LIMIT == 100 * 1024 * 1024

\* partSize, line 302.
PART_SIZE == 100 * 1024 * 1024

\* queueSize, line 303.
QUEUE_SIZE == 4

\* fileStats.size of the file to put: around the limit, and several parts.
R2FileSizes ==
    { 1, SIMPLE_UPLOAD_LIMIT - 1, SIMPLE_UPLOAD_LIMIT, SIMPLE_UPLOAD_LIMIT + 1,
      2 * PART_SIZE, 5 * PART_SIZE, 6 * PART_SIZE + 1 }

\* The test of line 277 with the limit included.
SimpleUpload_LimitIncluded(fileSize) == fileSize <= SIMPLE_UPLOAD_LIMIT

\* Line 277: files under the limit take the simple upload.
SimpleUpload(fileSize) == fileSize < SIMPLE_UPLOAD_LIMIT

\* The number of parts of a body of fileSize bytes.
PartCount(fileSize, partSize) == (fileSize + partSize - 1) \div partSize

\* The length of part p.
PartLength(fileSize, partSize, p) ==
    IF p < PartCount(fileSize, partSize) THEN partSize
    ELSE fileSize - (p - 1) * partSize

\* Lines 273-286 and 290-311: the size is read and the strategy chosen; the
\* PutObjectCommand is sent, or the Upload is built and done() called.
UploadToR2 ==
    /\ r2put.pc = "idle"
    /\ \E fileSize \in R2FileSizes :
         r2put' = IF SimpleUpload(fileSize)
               THEN [ r2put EXCEPT !.pc = "put", !.fileSize = fileSize, !.sent = @ + 1 ]
               ELSE [ r2put EXCEPT !.pc = "multipart", !.fileSize = fileSize,
                                !.uploads = @ + 1,
                                !.partSize = PART_SIZE, !.queueSize = QUEUE_SIZE ]
    /\ UNCHANGED << uploadVars, viewers, stream >>

\* Line 286: r2Client.send(command) has resolved or rejected.
PutObjectDone ==
    /\ r2put.pc = "put"
    /\ \E ok \in BOOLEAN : r2put' = [ r2put EXCEPT !.pc = "done", !.failed = ~ok ]
    /\ UNCHANGED << uploadVars, viewers, stream >>

\* Line 311, inside upload.done(): the next part is started when fewer than
\* queueSize parts are in flight.
PartStart ==
    /\ r2put.pc = "multipart"
    /\ r2put.next <= PartCount(r2put.fileSize, r2put.partSize)
    /\ Cardinality(r2put.inFlight) < r2put.queueSize
    /\ r2put' = [ r2put EXCEPT !.inFlight = @ \cup { r2put.next }, !.next = @ + 1 ]
    /\ UNCHANGED << uploadVars, viewers, stream >>

\* Line 311, inside upload.done(): a part in flight has been stored, or has
\* failed, which fails the whole put.
PartDone(p) ==
    /\ r2put.pc = "multipart"
    /\ p \in r2put.inFlight
    /\ \E ok \in BOOLEAN :
         r2put' = IF ok
               THEN [ r2put EXCEPT !.inFlight = @ \ { p }, !.uploaded = @ \cup { p } ]
               ELSE [ r2put EXCEPT !.inFlight = {}, !.pc = "done", !.failed = TRUE ]
    /\ UNCHANGED << uploadVars, viewers, stream >>

\* Lines 311-312: every part is stored and upload.done() resolves.
UploadDone ==
    /\ r2put.pc = "multipart"
    /\ r2put.uploaded = 1..PartCount(r2put.fileSize, r2put.partSize)
    /\ r2put' = [ r2put EXCEPT !.pc = "done" ]
    /\ UNCHANGED << uploadVars, viewers, stream >>

NextR2 ==
    \/ UploadToR2
    \/ PutObjectDone
    \/ PartStart
    \/ \E p \in 1..PartCount(r2put.fileSize, PART_SIZE) : PartDone(p)
    \/ UploadDone

SpecR2 == Init /\ [][NextR2]_vars

(***************************************************************************)
(* The handlers that write the record store, side by side: an upload and   *)
(* GET requests of a record, over the stores an earlier ingestion has      *)
(* filled. GET /api/videos (lines 238-254), GET /api/stream/:videoId       *)
(* (lines 286-351, which only calls Video.findOne) and GET /api/health     *)
(* (lines 354-368) read the store and leave it as it is: for the record    *)
(* store they are stuttering steps.                                        *)
(***************************************************************************)
\* The upload that runs beside the GET requests.
RecordRuns == { RepeatedName }

\* The GET /api/videos/:videoId requests that run beside it.
RecordViewers == Viewers

NextRecords ==
    \/ \E r \in RecordRuns :
           \/ Receive(r)
           \/ ProbeDone(r)
           \/ GenDone(r)
           \/ VideoUploadDone(r)
           \/ ThumbUploadDone(r)
           \/ SaveDone(r)
    \/ \E h \in RecordViewers : ViewFind(h) \/ ViewSave(h)

SpecRecords == InitView /\ [][NextRecords]_vars

(***************************************************************************)
(* Properties of the ingestion pipeline (checked under Spec)               *)
(***************************************************************************)
Finished(r) == runs[r].pc \in { "done", "hung" }

PassedValidation(r) == runs[r].tempVideoPath # Null

RecordsOf(videoId) == { d \in records : d.videoId = videoId }

\* The thumbnail objects in the bucket under the prefix thumbnails/{videoId}/
ThumbObjects(videoId) ==
    { k \in DOMAIN objects : Len(k) = 3 /\ k[1] = "thumbnails" /\ k[2] = videoId }

\* C1: a run that passed validation and has finished, on the success path or
\* after a failure of probing, generation, an upload or the save, with every
\* file-system removal it attempted having worked, has left neither its temp
\* video file nor its temp thumbnail directory.
C1_TempReleasedOnEveryExit ==
    \A r \in Runs :
        (Finished(r) /\ PassedValidation(r) /\ ~ghost[r].fsFault)
            => /\ ~Exists(files, runs[r].tempVideoPath)
               /\ ~Exists(dirs, runs[r].tempThumbnailDir)

\* A run that failed in the middle of its thumbnail uploads, with frames on
\* disk until then, has finished with a 500.
C1_Witness ==
    \E r \in Runs :
        /\ runs[r].pc = "done" /\ runs[r].status = 500
        /\ ghost[r].failed = "upthumb" /\ runs[r].idx > 1
        /\ ghost[r].frames # {} /\ ~ghost[r].fsFault

\* C3: a record is persisted only by a run that has stored the video object
\* and an object for every frame generated; a run whose probing, generation,
\* video upload or some thumbnail upload failed never has a record.
C3_RecordOnlyAfterAllUploads ==
    \A r \in Runs :
        /\ ghost[r].failed \in { "probe", "gen", "upvideo", "upthumb" }
               => RecordsOf(runs[r].videoId) = {}
        /\ (\E d \in records : d.id = r)
               => /\ ghost[r].saved
                  /\ VideoKey(runs[r].videoId) \in ghost[r].stored
                  /\ \A i \in ghost[r].frames :
                         ThumbKey(runs[r].videoId, i) \in ghost[r].stored
                  /\ ghost[r].stored \subseteq DOMAIN objects

\* One run has committed its record with all frames stored while the other
\* has failed in a thumbnail upload after storing some objects.
C3_Witness ==
    \E r1, r2 \in Runs :
        /\ (\E d \in records : d.id = r1 /\ d.thumbnailCount = THUMB_COUNT)
        /\ ghost[r2].failed = "upthumb" /\ Cardinality(ghost[r2].stored) >= 2
        /\ runs[r2].pc = "done"

\* C5: a request answered 400 'Video and title required' retains no temp
\* file: the file multer wrote for it is gone once the response is sent.
C5_RejectedRetainsNoTemp ==
    \A r \in Runs :
        runs[r].status = 400 => ~Exists(files, MulterPath(r))

\* C7: the thumbnailCount of every persisted record equals the number of
\* thumbnail objects in the bucket under thumbnails/{videoId}/.
C7_ThumbnailCountMatchesStore ==
    \A d \in records : d.thumbnailCount = Cardinality(ThumbObjects(d.videoId))

\* A record of a short video: fewer frames than requested, all stored.
C7_Witness ==
    \E d \in records :
        /\ d.thumbnailCount = 2
        /\ Cardinality(ThumbObjects(d.videoId)) = 2
        /\ runs[d.id].status = 200

\* The video object and the frames the run generated are all in the bucket.
AllObjectsStored(r) ==
    /\ runs[r].videoId # Null
    /\ VideoKey(runs[r].videoId) \in DOMAIN objects
    /\ \A i \in ghost[r].frames : ThumbKey(runs[r].videoId, i) \in DOMAIN objects

\* C8 as stated: in every state a record exists for a videoId if and only if
\* its video object and all its thumbnail objects are in the bucket.
C8_RecordIffObjects ==
    \A r \in Runs :
        (RecordsOf(PathParseName(r)) # {}) <=> AllObjectsStored(r)

\* C8 amended: in every state, if a record exists for a videoId then the video
\* object videos/{videoId}.mp4 and the thumbnail objects thumb_1 ..
\* thumb_{thumbnailCount} of that videoId are in the bucket.
C8_RecordImpliesObjects ==
    \A d \in records :
        /\ VideoKey(d.videoId) \in DOMAIN objects
        /\ \A n \in 1..d.thumbnailCount : ThumbKey(d.videoId, n) \in DOMAIN objects

\* A record with all ten thumbnails exists beside the objects of a run whose
\* save was rejected: objects without a record.
C8_Witness ==
    \E d \in records, r \in Runs :
        /\ d.thumbnailCount = THUMB_COUNT
        /\ ghost[r].failed = "save"
        /\ ghost[r].frames # {}
        /\ AllObjectsStored(r)
        /\ RecordsOf(runs[r].videoId) = {}

(***************************************************************************)
(* Properties of GET /api/videos/:videoId (checked under SpecView)         *)
(***************************************************************************)
\* The requests for videoId that were answered 200.
CompletedViews(videoId) ==
    { h \in Viewers : viewers[h].status = 200 /\ viewers[h].video.videoId = videoId }

\* C4: the persisted viewCount of a record (0 when ingested) equals the number
\* of GET /api/videos/:videoId calls for it that have completed successfully.
C4_ViewCountExact ==
    \A d \in records : d.views = Cardinality(CompletedViews(d.videoId))

(***************************************************************************)
(* Properties of GET /api/stream/:videoId (checked under SpecStream)       *)
(***************************************************************************)
\* The size of the stored video object.
ObjectSize == objects[VideoKey(OldVideoId)]

\* The response is complete: the upstream stream did not fail and the client
\* stayed connected.
ServedToCompletion ==
    stream.ended /\ ~stream.upstreamError /\ ~stream.clientClosed

\* The request named 'bytes=a-b' with 0 <= a <= b < size.
ClosedRangeRequest(a, b) ==
    /\ stream.mode = "range"
    /\ a <= b /\ b < ObjectSize
    /\ stream.range.text =
           BytesEq \o << DigitChars[a + 1] >> \o << "-" >> \o << DigitChars[b + 1] >>

\* The request named 'bytes=a-' with 0 <= a < size.
OpenRangeRequest(a) ==
    /\ stream.mode = "range"
    /\ a < ObjectSize
    /\ stream.range.text = BytesEq \o << DigitChars[a + 1] >> \o << "-" >>

\* C2: for a range request with 0 <= start <= end < size, whatever the chunks
\* of the upstream stream, the complete body is bytes start..end of the
\* object, end-start+1 bytes.
C2_RangeBodyIsTheSlice ==
    \A a, b \in 0..MaxObjSize :
        (ClosedRangeRequest(a, b) /\ ServedToCompletion)
            => stream.body = Chunk(a, b - a + 1)

\* The header of the request in flight is malformed: a start or end that is
\* not a number, start > end, or start >= size.
MalformedRange ==
    /\ stream.mode = "range"
    /\ \/ stream.start.nan
       \/ stream.end.nan
       \/ stream.start.v > stream.end.v
       \/ stream.start.v >= ObjectSize

\* C6: a malformed Range header is answered with a 4xx: no 206 is started and
\* no body byte is written.
C6_MalformedRangeIsClientError ==
    MalformedRange => (stream.status \in 400..499 /\ stream.body = << >>)

\* C9: a range request without end, 0 <= start < size, is served with every
\* byte from start through the last byte of the object, whatever the chunks.
C9_OpenRangeServesToLastByte ==
    \A a \in 0..MaxObjSize :
        (OpenRangeRequest(a) /\ ServedToCompletion)
            => stream.body = Chunk(a, ObjectSize - a)

\* A request for the ingested video without a Range header, whose record
\* lookup, stat and getObject all answered.
FullRequest ==
    /\ stream.pc # "idle"
    /\ stream.videoId = OldVideoId
    /\ ~stream.range.present
    /\ stream.fault = "none"

\* C10: a request without a Range header for an existing record is answered
\* with status 200 and Content-Length equal to the object size; the body is
\* the object's bytes in order, and the entire object once the upstream
\* stream has ended.
C10_NoRangeServesWholeObject ==
    FullRequest
        => /\ stream.status = 200
           /\ stream.headers.ContentLength = Num(ObjectSize)
           /\ \E n \in 0..ObjectSize : stream.body = Chunk(0, n)
           /\ ServedToCompletion => stream.body = Chunk(0, ObjectSize)

\* The largest object has been served whole, in more than one chunk.
C10_Witness ==
    /\ FullRequest
    /\ stream.ended
    /\ ObjectSize = MaxObjSize
    /\ MaxObjSize > MaxChunk
    /\ Len(stream.body) = ObjectSize

\* C11: a range request with 0 <= start <= end < size, end defaulting to
\* size-1 when omitted, is answered with status 206 and the headers
\* Content-Range: bytes start-end/size, Accept-Ranges: bytes,
\* Content-Type: video/mp4 and Content-Length: end-start+1.
C11_RangeResponseHead ==
    \A a, b \in 0..MaxObjSize :
        ((ClosedRangeRequest(a, b) \/ (OpenRangeRequest(a) /\ b = ObjectSize - 1))
            /\ a <= b)
            => /\ stream.status = 206
               /\ stream.headers =
                      [ ContentRange |-> << Num(a), Num(b), ObjectSize >>,
                        AcceptRanges |-> "bytes",
                        ContentLength |-> Num(b - a + 1),
                        ContentType |-> "video/mp4" ]

\* The head of the answer to 'bytes=1-2' on the largest object is out.
C11_Witness ==
    /\ ClosedRangeRequest(1, 2)
    /\ ObjectSize = MaxObjSize
    /\ stream.status = 206
    /\ stream.headers.ContentLength = Num(2)

\* C12: within one ingestion run the video object is uploaded first and the
\* thumbnails are then uploaded in ascending numeric index order: for i < j
\* the upload of thumb_i starts before the upload of thumb_j.
C12_UploadsInAscendingIndexOrder ==
    \A r \in Runs :
        LET log == ghost[r].putLog
        IN  /\ log # << >> => log[1] = VideoKey(runs[r].videoId)
            /\ \A p, q \in 2..Len(log) : p < q => log[p][3] < log[q][3]

\* C13: when probing the temp file fails, no thumbnail generation is started
\* (no frame, no thumbnail directory), no put is ever attempted for that
\* videoId, no record is persisted, and, the catch block's removals having
\* worked, the temp file is removed and the request is answered with 500.
C13_ProbeFailureStopsThePipeline ==
    \A r \in Runs :
        ghost[r].failed = "probe"
            => /\ ghost[r].frames = {}
               /\ ~Exists(dirs, runs[r].tempThumbnailDir)
               /\ ghost[r].putLog = << >>
               /\ VideoKey(runs[r].videoId) \notin DOMAIN objects
               /\ ThumbObjects(runs[r].videoId) = {}
               /\ RecordsOf(runs[r].videoId) = {}
               /\ ~ghost[r].fsFault
                      => /\ runs[r].pc = "done"
                         /\ runs[r].status = 500
                         /\ runs[r].responses = 1
                         /\ ~Exists(files, runs[r].tempVideoPath)

\* A run whose probe failed has been answered, while the other run has put
\* objects of its own.
C13_Witness ==
    \E r, o \in Runs :
        /\ ghost[r].failed = "probe" /\ ~ghost[r].fsFault
        /\ runs[r].pc = "done" /\ runs[r].status = 500
        /\ o # r /\ ghost[o].stored # {}

\* The keys of the puts a run has issued.
PutKeys(r) == { ghost[r].putLog[p] : p \in 1..Len(ghost[r].putLog) }

\* C14: two uploads handled concurrently, whose temp file names differ, get
\* two distinct videoIds, put under two disjoint sets of keys and persist two
\* distinct records, even with the same title, however their steps interleave.
C14_ConcurrentUploadsAreDisjoint ==
    \A r, o \in Runs :
        (r # o /\ PassedValidation(r) /\ PassedValidation(o))
            => /\ runs[r].videoId # runs[o].videoId
               /\ PutKeys(r) \cap PutKeys(o) = {}
               /\ ghost[r].stored \cap ghost[o].stored = {}
               /\ \A k \in PutKeys(r) : k[2] = runs[r].videoId
               /\ \A d, e \in records :
                      (d.id = r /\ e.id = o) => d.videoId # e.videoId
               /\ (ghost[r].saved /\ ghost[o].saved)
                      => /\ Cardinality(RecordsOf(runs[r].videoId)) = 1
                         /\ Cardinality(RecordsOf(runs[o].videoId)) = 1
                         /\ Cardinality(records) = 2

\* Both uploads, sent with the same title, have been answered with 200 after
\* their thumbnail uploads interleaved.
C14_Witness ==
    \E r, o \in Runs :
        /\ r # o
        /\ runs[r].title = "Demo" /\ runs[o].title = "Demo"
        /\ runs[r].status = 200 /\ runs[o].status = 200
        /\ ghost[r].frames # {} /\ ghost[o].frames # {}
        /\ Cardinality(records) = 2

\* C15: once the client has disconnected in the middle of a transfer, on the
\* range path or the full path, the upstream object stream is destroyed and
\* no further chunk is read from it.
C15_DisconnectDestroysUpstream ==
    stream.clientClosed => (stream.destroyed /\ ~stream.readAfterClose)

\* C16: on the range path no byte before start reaches the response, and once
\* the byte at offset end has been passed the upstream is closed and the
\* response ended, so that no byte after end is written.
C16_RangeBodyWithinBounds ==
    \A a, b \in 0..MaxObjSize :
        ClosedRangeRequest(a, b)
            => /\ \A i \in 1..Len(stream.body) :
                      a <= stream.body[i] /\ stream.body[i] <= b
               /\ stream.bytesRead > b => (stream.destroyed /\ stream.ended)

\* C17: when the video upload or a thumbnail upload fails in the middle of
\* the sequence, every object the run has stored until then stays in the
\* bucket as stored (no compensating delete), and, the catch block's
\* removals having worked, the temp file and the temp directory are gone and
\* the request is answered with 500.
C17_NoRollbackOfStoredObjects ==
    \A r \in Runs :
        ghost[r].failed \in { "upvideo", "upthumb" }
            => /\ \A k \in ghost[r].stored :
                      /\ k \in DOMAIN objects
                      /\ objects[k] = IF k = VideoKey(runs[r].videoId)
                                      THEN runs[r].size ELSE ThumbBytes
               /\ ~ghost[r].fsFault
                      => /\ runs[r].pc = "done"
                         /\ runs[r].status = 500
                         /\ runs[r].responses = 1
                         /\ ~Exists(files, runs[r].tempVideoPath)
                         /\ ~Exists(dirs, runs[r].tempThumbnailDir)

\* The second thumbnail put of a run was rejected: the video object and the
\* first thumbnail are in the bucket and the run has been answered with 500.
C17_Witness ==
    \E r \in Runs :
        /\ ghost[r].failed = "upthumb"
        /\ runs[r].pc = "done" /\ runs[r].status = 500
        /\ VideoKey(runs[r].videoId) \in DOMAIN objects
        /\ ThumbObjects(runs[r].videoId) # {}
        /\ Len(ghost[r].putLog) = Cardinality(ghost[r].stored) + 1

\* C18: the persisted view count of a record never decreases from one state
\* of the store to the next, also when GET handlers interleave.
C18_ViewCountNeverDecreases ==
    [][ \A d \in records : \A e \in records' :
            e.id = d.id => e.views >= d.views ]_vars

\* C19: the put chooses its strategy by the file size alone. Below the limit
\* exactly one single-shot put is sent and no multipart upload is started;
\* at or above it, the limit itself included, no single-shot put is sent and
\* one chunked upload runs, with the fixed part size for every part but the
\* last and at most 4 parts in flight.
C19_StrategyBySizeAlone ==
    r2put.pc # "idle"
        => IF r2put.fileSize < SIMPLE_UPLOAD_LIMIT
           THEN /\ r2put.sent = 1
                /\ r2put.uploads = 0
                /\ r2put.inFlight = {} /\ r2put.uploaded = {}
           ELSE /\ r2put.sent = 0
                /\ r2put.uploads = 1
                /\ r2put.partSize = PART_SIZE
                /\ Cardinality(r2put.inFlight) <= 4
                /\ \A p \in r2put.inFlight \cup r2put.uploaded :
                       /\ PartLength(r2put.fileSize, r2put.partSize, p) <= PART_SIZE
                       /\ p < r2put.next - 1
                              => PartLength(r2put.fileSize, r2put.partSize, p) = PART_SIZE

\* Four parts of a larger file are in flight and a fifth one waits.
C19_Witness ==
    /\ r2put.pc = "multipart"
    /\ Cardinality(r2put.inFlight) = 4
    /\ r2put.next <= PartCount(r2put.fileSize, r2put.partSize)

\* C20: when the upstream stream fails after the response has started, on
\* the range path and on the full path alike, the response is terminated, no
\* further body byte is written and the server goes on serving requests.
C20_UpstreamErrorEndsResponseOnly ==
    stream.upstreamError
        => /\ stream.ended
           /\ stream.pc = "done"
           /\ ~stream.crashed

\* C21: no two persisted records share a videoId, and an ingestion whose
\* videoId is that of an existing record persists no second record.
C21_VideoIdUnique ==
    /\ \A d, e \in records : d.videoId = e.videoId => d = e
    /\ \A r \in Runs :
           (\E d \in EarlierRecords : d.videoId = runs[r].videoId)
               => /\ ~ghost[r].saved
                  /\ \A d \in records : d.id # r
                  /\ EarlierRecords \subseteq records

\* The upload under the repeated name has stored all its objects, its save
\* was rejected, and the other upload has persisted its record.
C21_Witness ==
    \E r, o \in Runs :
        /\ r = RepeatedName /\ o # r
        /\ ghost[r].failed = "save"
        /\ ghost[r].frames # {} /\ Cardinality(ghost[r].stored) > 1
        /\ ghost[o].saved
        /\ Cardinality(records) = 2

\* C22: a record is created once, by the save that ends a successful
\* ingestion run, and from then on only its view count changes: whatever
\* uploads and GET requests run, an existing record stays in the store with
\* the same videoId, title, description, filename, duration, thumbnailCount
\* and createdAt.
C22_RecordFieldsNeverChange ==
    [][ /\ \A d \in records :
             \E e \in records' :
                 /\ e.id = d.id
                 /\ e.videoId = d.videoId
                 /\ e.title = d.title
                 /\ e.description = d.description
                 /\ e.filename = d.filename
                 /\ e.duration = d.duration
                 /\ e.thumbnailCount = d.thumbnailCount
                 /\ e.createdAt = d.createdAt
        /\ \A e \in records' :
             (\A d \in records : d.id # e.id)
                 => /\ e.id \in Runs
                    /\ runs[e.id].pc = "save"
                    /\ ~ghost[e.id].saved /\ ghost'[e.id].saved
        /\ \A d, e \in records' : d.id = e.id => d = e ]_vars

\* The earlier record has been viewed twice and the upload has persisted its
\* own record beside it.
C22_Witness ==
    /\ \E d \in records : d.videoId = OldVideoId /\ d.views >= 2
    /\ \E r \in Runs : ghost[r].saved /\ \E d \in records : d.id = r
    /\ \E h \in Viewers : viewers[h].pc = "saving"

\* The place of a handler position in the sequence of steps.
StepRank(pc) ==
    CASE pc = "idle" -> 0
      [] pc = "probe" -> 1
      [] pc = "gen" -> 2
      [] pc = "upvideo" -> 3
      [] pc = "upthumb" -> 4
      [] pc = "save" -> 5
      [] OTHER -> 6

\* C23: a run goes through probe, thumbnail generation, video upload,
\* thumbnail uploads, record save and temp cleanup in this order; it never
\* goes back to a step (no retry), it enters a step only when the one before
\* has succeeded (the thumbnail uploads being passed over only when there is
\* no thumbnail), no put is issued twice, and the first failure ends the run.
C23_StrictStepOrder ==
    [][ \A r \in Runs :
          LET a == StepRank(runs[r].pc)
              b == StepRank(runs'[r].pc)
              log == ghost'[r].putLog
          IN  /\ b >= a
              /\ (b > a /\ b < 6)
                     => /\ \/ b = a + 1
                           \/ a = 3 /\ b = 5 /\ runs'[r].thumbnailFiles = << >>
                        /\ ghost'[r].failed = "none"
              /\ (a = 4 /\ b = 4 /\ runs'[r] # runs[r])
                     => /\ runs'[r].idx = runs[r].idx + 1
                        /\ ghost'[r].failed = "none"
              /\ (a = b /\ a # 4) => runs'[r] = runs[r]
              /\ ghost'[r].failed # "none" => b = 6
              /\ ghost[r].failed # "none" => runs'[r] = runs[r]
              /\ \A p, q \in 1..Len(log) : log[p] = log[q] => p = q ]_vars

\* One run has gone through every step with all ten frames and was answered
\* 200, the other ended at its failed generation.
C23_Witness ==
    \E r, o \in Runs :
        /\ runs[r].status = 200
        /\ Len(ghost[r].putLog) = THUMB_COUNT + 1
        /\ ghost[o].failed = "gen" /\ ghost[o].putLog = << >>

\* What the disk holds for a run: its temp file and its temp directory.
TempOf(fs, d, r) ==
    << IF Exists(fs, MulterPath(r)) THEN { fs[MulterPath(r)] } ELSE {},
       IF Exists(d, ThumbDirOf(PathParseName(r)))
       THEN { d[ThumbDirOf(PathParseName(r))] } ELSE {} >>

\* C24: the temp file and the temp thumbnail directory are the run's own.
\* Two runs with distinct videoIds have distinct temp paths; a step of one
\* run, be it a read, an upload, the success cleanup or the error cleanup,
\* leaves the temp file and directory of the other run as they are; and a
\* run lists and uploads the frames of its own directory and the bytes of
\* its own file.
C24_TempPathsAreTheRunsOwn ==
    [][ \A r \in Runs :
          /\ \A o \in Runs \ {r} :
                 (runs'[r].tempVideoPath # Null /\ runs'[o].tempVideoPath # Null)
                     => /\ runs'[r].tempVideoPath # runs'[o].tempVideoPath
                        /\ runs'[r].tempThumbnailDir # runs'[o].tempThumbnailDir
          /\ runs'[r].tempVideoPath # Null
                 => /\ runs'[r].tempVideoPath = MulterPath(r)
                    /\ runs'[r].tempThumbnailDir = ThumbDirOf(runs'[r].videoId)
          /\ (runs'[r] = runs[r] /\ ghost'[r] = ghost[r])
                 => TempOf(files', dirs', r) = TempOf(files, dirs, r)
          /\ runs'[r].pc \in { "upthumb", "save" }
                 => /\ runs'[r].thumbnailFiles = ReadThumbnailFiles(ghost'[r].frames)
                    /\ objects'[VideoKey(runs'[r].videoId)] = runs'[r].size ]_vars

\* One run is uploading its frames while the other, which also has frames
\* on disk, has just been cleaned up after a failed video upload.
C24_Witness ==
    \E r, o \in Runs :
        /\ runs[r].pc = "upthumb" /\ Exists(dirs, runs[r].tempThumbnailDir)
        /\ Exists(files, runs[r].tempVideoPath)
        /\ ghost[o].failed = "upvideo" /\ ghost[o].frames # {}
        /\ ~Exists(dirs, runs[o].tempThumbnailDir)

\* C25: the answer of POST /api/upload agrees with the record store: a run
\* is answered 200 exactly if it has persisted a record for its videoId, and
\* whenever it is answered 500, also after a failure of the temp cleanup that
\* follows the save, no record for its videoId exists.
C25_ResponseAgreesWithStore ==
    \A r \in Runs :
        (runs[r].pc = "done" /\ PassedValidation(r))
            => /\ runs[r].status = 200 <=> (\E d \in records : d.id = r)
               /\ runs[r].status = 500 => RecordsOf(runs[r].videoId) = {}

\* C26: a POST /api/upload request whose handler has come to its end, every
\* external step having succeeded or failed, has been answered with exactly
\* one response, 200, 400 or 500: never none, also when a removal in the
\* error handler itself fails, and never two.
C26_ExactlyOneResponse ==
    \A r \in Runs :
        /\ runs[r].responses <= 1
        /\ Finished(r)
               => /\ runs[r].responses = 1
                  /\ runs[r].status \in { 200, 400, 500 }

====
